---- MODULE Spec2Model ----
(***************************************************************************)
(* Model of corelib/allocation/domain/model.py: the OrderLine value, the   *)
(* Batch entity (allocate, deallocate, can_allocate, the derived           *)
(* quantities, the eta ordering) and the module-level allocate policy.     *)
(* The program is sequential: every action is one complete call.           *)
(***************************************************************************)
EXTENDS Integers, Sequences, FiniteSets

(* ---------------------------- bounds ----------------------------------- *)
NumBatches == 2        \* Batch objects the caller holds
MaxPurchased == 2      \* purchased quantities are 0..MaxPurchased
MaxQty == 2            \* order line quantities are 1..MaxQty
MaxEta == 2            \* dated etas are day 1..MaxEta

(* --------------------------- value domains ----------------------------- *)
\* Optional[date]: None is the empty tuple, a date d is <<d>>.
None == <<>>
Etas == {None} \cup {<<d>> : d \in 1..MaxEta}
Skus == {"RED-CHAIR", "BLUE-LAMP"}
OrderIds == {"order-1", "order-2"}
BatchIds == 1..NumBatches

\* @dataclass(unsafe_hash=True) class OrderLine: equality and hash by value,
\* so an order line is the record of its three fields.
OrderLine == [orderid : OrderIds, sku : Skus, qty : 1..MaxQty]

\* Batch.__init__: the four arguments are stored, the allocations set is empty.
Batch_init(ref, sku, qty, eta) ==
    [reference |-> ref, sku |-> sku, eta |-> eta,
     purchased_quantity |-> qty, allocations |-> {}]

(* ------------------------- Batch, pure parts --------------------------- *)
\* sum(line.qty for line in lines)
RECURSIVE SumQty(_)
SumQty(lines) ==
    IF lines = {} THEN 0
    ELSE LET l == CHOOSE x \in lines : TRUE
         IN  l.qty + SumQty(lines \ {l})

\* allocated_quantity counting the lines instead of summing their quantities.
allocated_quantity_count(self) == Cardinality(self.allocations)

allocated_quantity(self) == SumQty(self.allocations)

\* available_quantity ignoring the allocations.
available_quantity_purchased(self) == self.purchased_quantity

available_quantity(self) == self.purchased_quantity - allocated_quantity(self)

\* can_allocate with < in place of <=.
can_allocate_strict(self, line) ==
    self.sku = line.sku /\ line.qty < available_quantity(self)

\* can_allocate without the sku test.
can_allocate_qty_only(self, line) == line.qty <= available_quantity(self)

\* can_allocate without the quantity test.
can_allocate_sku_only(self, line) == self.sku = line.sku

can_allocate(self, line) ==
    self.sku = line.sku /\ line.qty <= available_quantity(self)

\* Batch.allocate removing a line that is already there (^= in place of add).
Batch_allocate_toggle(self, line) ==
    IF can_allocate(self, line)
    THEN [self EXCEPT !.allocations = (@ \ {line}) \cup ({line} \ @)]
    ELSE self

\* Batch.allocate: the batch after the call.
Batch_allocate(self, line) ==
    IF can_allocate(self, line)
    THEN [self EXCEPT !.allocations = @ \cup {line}]
    ELSE self

\* Batch.deallocate with the membership test negated.
Batch_deallocate_negated(self, line) ==
    IF line \notin self.allocations
    THEN [self EXCEPT !.allocations = @ \ {line}]
    ELSE self

\* Batch.deallocate emptying the set (clear in place of remove).
Batch_deallocate_clear(self, line) ==
    IF line \in self.allocations
    THEN [self EXCEPT !.allocations = {}]
    ELSE self

\* Batch.deallocate: the batch after the call.
Batch_deallocate(self, line) ==
    IF line \in self.allocations
    THEN [self EXCEPT !.allocations = @ \ {line}]
    ELSE self

\* Batch.__gt__ with the date comparison the wrong way round.
Batch_gt_reversed(self, other) ==
    IF self.eta = None THEN FALSE
    ELSE IF other.eta = None THEN TRUE
    ELSE self.eta[1] < other.eta[1]

\* Batch.__gt__
Batch_gt(self, other) ==
    IF self.eta = None THEN FALSE
    ELSE IF other.eta = None THEN TRUE
    ELSE self.eta[1] > other.eta[1]

\* a < b between Batch objects. Batch defines no __lt__, so Python evaluates
\* the reflected b.__gt__(a); sorted() compares with < only.
Batch_lt(a, b) == Batch_gt(b, a)

(* ------------------------------ state ---------------------------------- *)
VARIABLES
    batches,   \* BatchIds -> the Batch objects the caller holds
    ret,       \* outcome of the last call: the returned value or the raised error
    last,      \* name of the last call
    prior      \* per batch and allocated line: what the line found when it was added

vars == <<batches, ret, last, prior>>

Returned(v) == [kind |-> "return", value |-> v]
\* raise OutOfStock(f"Out of stock for sku: {line.sku}")
OutOfStock(sku) == [kind |-> "OutOfStock", value |-> <<"Out of stock for sku: ", sku>>]

\* The insertion placing x before the elements equal to it (an unstable sort).
RECURSIVE insort_before_equal(_, _, _)
insort_before_equal(B, s, x) ==
    IF s = <<>> THEN <<x>>
    ELSE IF ~Batch_lt(B[Head(s)], B[x]) THEN <<x>> \o s
    ELSE <<Head(s)>> \o insort_before_equal(B, Tail(s), x)

\* sorted(batches): insertion of x into a sorted list, after every element
\* that is not greater than x (the sort is stable).
RECURSIVE insort(_, _, _)
insort(B, s, x) ==
    IF s = <<>> THEN <<x>>
    ELSE IF Batch_lt(B[x], B[Head(s)]) THEN <<x>> \o s
    ELSE <<Head(s)>> \o insort(B, Tail(s), x)

\* sorted(batches) over a list of batch ids; B maps ids to the objects.
RECURSIVE sorted(_, _)
sorted(B, list) ==
    IF list = <<>> THEN <<>>
    ELSE insort(B, sorted(B, SubSeq(list, 1, Len(list) - 1)), list[Len(list)])

StopIteration == 0

\* The scan testing the sku alone instead of can_allocate.
RECURSIVE next_sku_match(_, _, _)
next_sku_match(B, order, line) ==
    IF order = <<>> THEN StopIteration
    ELSE IF B[Head(order)].sku = line.sku THEN Head(order)
    ELSE next_sku_match(B, Tail(order), line)

\* next(b for b in order if b.can_allocate(line)); StopIteration when exhausted.
RECURSIVE next_can_allocate(_, _, _)
next_can_allocate(B, order, line) ==
    IF order = <<>> THEN StopIteration
    ELSE IF can_allocate(B[Head(order)], line) THEN Head(order)
    ELSE next_can_allocate(B, Tail(order), line)

\* allocate calling allocate on every batch that can take the line.
allocate_every_eligible(B, line, list) ==
    LET batch == next_can_allocate(B, sorted(B, list), line) IN
    IF batch = StopIteration
    THEN [batches |-> B, ret |-> OutOfStock(line.sku), list |-> list]
    ELSE [batches |-> [b \in DOMAIN B |->
                         IF \E i \in 1..Len(list) : list[i] = b
                         THEN Batch_allocate(B[b], line) ELSE B[b]],
          ret |-> Returned(B[batch].reference), list |-> list]

\* Module-level allocate(line, batches): the objects, the outcome and the
\* caller's list after the call. sorted() builds a new list, so the caller's
\* list is left as it was passed.
allocate(B, line, list) ==
    LET batch == next_can_allocate(B, sorted(B, list), line) IN
    IF batch = StopIteration
    THEN [batches |-> B, ret |-> OutOfStock(line.sku), list |-> list]
    ELSE [batches |-> [B EXCEPT ![batch] = Batch_allocate(@, line)],
          ret |-> Returned(B[batch].reference), list |-> list]

\* The lists a caller can pass: any list of the held objects, the same object
\* possibly more than once.
BatchLists == UNION {[1..n -> BatchIds] : n \in 0..NumBatches}

\* The caller's batches: one object per id, references unique.
Init ==
    /\ \E sk \in [BatchIds -> Skus], q \in [BatchIds -> 0..MaxPurchased],
          e \in [BatchIds -> Etas] :
          batches = [b \in BatchIds |-> Batch_init(<<"batch", b>>, sk[b], q[b], e[b])]
    /\ ret = Returned(None)
    /\ last = "__init__"
    /\ prior = [b \in BatchIds |-> {}]

\* The bookkeeping of prior when the objects go from `old` to `new`: a line
\* that enters a batch is recorded with the available_quantity and the
\* allocations it found there, a line that leaves loses its record.
Track(old, new) ==
    [b \in BatchIds |->
        {p \in prior[b] : p.line \in new[b].allocations}
        \cup {[line |-> l, available |-> available_quantity(old[b]),
               allocations |-> old[b].allocations] :
                 l \in new[b].allocations \ old[b].allocations}]

\* b.allocate(line) on the held object b: the objects and the outcome after the call.
call_allocate(B, b, line) ==
    [batches |-> [B EXCEPT ![b] = Batch_allocate(@, line)], ret |-> Returned(None)]

\* b.deallocate(line) on the held object b: the objects and the outcome after the call.
call_deallocate(B, b, line) ==
    [batches |-> [B EXCEPT ![b] = Batch_deallocate(@, line)], ret |-> Returned(None)]

(* ----------------------------- actions --------------------------------- *)
\* batches[b].allocate(line)
BatchAllocate ==
    \E b \in BatchIds, line \in OrderLine :
        \E r \in {call_allocate(batches, b, line)} :
            /\ batches' = r.batches
            /\ ret' = r.ret
            /\ last' = "Batch.allocate"
            /\ prior' = Track(batches, r.batches)

\* batches[b].deallocate(line)
BatchDeallocate ==
    \E b \in BatchIds, line \in OrderLine :
        \E r \in {call_deallocate(batches, b, line)} :
            /\ batches' = r.batches
            /\ ret' = r.ret
            /\ last' = "Batch.deallocate"
            /\ prior' = Track(batches, r.batches)

\* allocate(line, list)
Allocate ==
    \E line \in OrderLine, list \in BatchLists :
        \E r \in {allocate(batches, line, list)} :
            /\ batches' = r.batches
            /\ ret' = r.ret
            /\ last' = "allocate"
            /\ prior' = Track(batches, r.batches)

Next == BatchAllocate \/ BatchDeallocate \/ Allocate

Spec == Init /\ [][Next]_vars

\* A caller that uses module-level allocate alone, on batches that start empty.
SpecAllocate == Init /\ [][Allocate]_vars

(* ------------------------------ claims --------------------------------- *)
\* A claim about one call is stated for every call a caller can make in the
\* current state: for every held batch, every order line and every list.

\* The batches of a list.
Elems(list) == {list[i] : i \in 1..Len(list)}

\* eta x is strictly earlier than eta y, None being earlier than every date.
EarlierEta(x, y) ==
    \/ x = None /\ y # None
    \/ x # None /\ y # None /\ x[1] < y[1]

\* C1: with purchased quantities >= 0 and line quantities >= 1, the
\* available_quantity of every batch is >= 0 in every state reachable by
\* Batch.allocate, Batch.deallocate and module-level allocate.
C1_AvailableNonNegative ==
    \A b \in BatchIds : available_quantity(batches[b]) >= 0

\* A batch filled to exactly zero by allocations.
C1_Witness ==
    \E b \in BatchIds :
        /\ Cardinality(batches[b].allocations) = 2
        /\ available_quantity(batches[b]) = 0

\* C2: when module-level allocate returns a reference, it is the reference of
\* a batch of the list that could take the line before the call, and no batch
\* of the list that could take the line has a strictly earlier eta (None
\* earlier than every date).
C2_EarliestEligible ==
    \A line \in OrderLine, list \in BatchLists :
        LET r == allocate(batches, line, list) IN
        r.ret.kind = "return" =>
            \E b \in Elems(list) :
                /\ r.ret.value = batches[b].reference
                /\ batches[b].sku = line.sku
                /\ line.qty <= available_quantity(batches[b])
                /\ \A c \in Elems(list) :
                      (batches[c].sku = line.sku
                          /\ line.qty <= available_quantity(batches[c]))
                      => ~EarlierEta(batches[c].eta, batches[b].eta)

\* allocate returned the reference of a dated batch that holds a line, while a
\* batch with no eta and the same sku is too full to take that line.
C2_Witness ==
    /\ last = "allocate"
    /\ ret.kind = "return"
    /\ \E b \in BatchIds, c \in BatchIds :
          /\ ret.value = batches[b].reference
          /\ batches[b].eta # None
          /\ batches[c].eta = None
          /\ batches[c].sku = batches[b].sku
          /\ \E p \in prior[b] : p.line.qty > available_quantity(batches[c])

\* C3: if the list is empty or no batch of it can take the line, module-level
\* allocate raises OutOfStock carrying the line's sku and the allocations of
\* every batch are what they were before the call.
C3_OutOfStockNoMutation ==
    \A line \in OrderLine, list \in BatchLists :
        LET r == allocate(batches, line, list) IN
        (\A b \in Elems(list) :
            batches[b].sku # line.sku \/ line.qty > available_quantity(batches[b]))
        => /\ r.ret.kind = "OutOfStock"
           /\ r.ret.value[2] = line.sku
           /\ \A b \in BatchIds : r.batches[b].allocations = batches[b].allocations

\* allocate raised OutOfStock while a batch holds allocations that fill it.
C3_Witness ==
    /\ last = "allocate"
    /\ ret.kind = "OutOfStock"
    /\ \E b \in BatchIds :
          /\ batches[b].allocations # {}
          /\ available_quantity(batches[b]) = 0
          /\ batches[b].sku = ret.value[2]

\* C4 as stated: for every reachable Batch state and every order line,
\* Batch.allocate(line) followed by Batch.deallocate(line) returns the
\* allocations and available_quantity to their values before the allocate.
C4_RoundTripEveryLine ==
    \A b \in BatchIds, line \in OrderLine :
        LET a == call_allocate(batches, b, line).batches
            d == call_deallocate(a, b, line).batches
        IN  /\ d[b].allocations = batches[b].allocations
            /\ available_quantity(d[b]) = available_quantity(batches[b])

\* C4 amended: for every reachable Batch state and every order line that is
\* not already in the batch's allocations, Batch.allocate(line) followed by
\* Batch.deallocate(line) returns the allocations and available_quantity to
\* their values before the allocate.
C4_RoundTripNewLine ==
    \A b \in BatchIds, line \in OrderLine :
        LET a == call_allocate(batches, b, line).batches
            d == call_deallocate(a, b, line).batches
        IN  line \notin batches[b].allocations
            => /\ d[b].allocations = batches[b].allocations
               /\ available_quantity(d[b]) = available_quantity(batches[b])

\* After a deallocate, a batch that holds a line can take a further line that
\* it does not hold: the round trip from here adds and removes that line.
C4_Witness ==
    /\ last = "Batch.deallocate"
    /\ \E b \in BatchIds, line \in OrderLine :
          /\ batches[b].allocations # {}
          /\ line \notin batches[b].allocations
          /\ batches[b].sku = line.sku
          /\ line.qty <= available_quantity(batches[b])

\* C5: Batch.allocate(line) with a line whose sku differs from the batch's or
\* whose quantity exceeds available_quantity raises nothing and leaves the
\* allocations and available_quantity unchanged.
C5_AllocateNoOp ==
    \A b \in BatchIds, line \in OrderLine :
        LET r == call_allocate(batches, b, line) IN
        (line.sku # batches[b].sku \/ line.qty > available_quantity(batches[b]))
        => /\ r.ret = Returned(None)
           /\ r.batches = batches
           /\ available_quantity(r.batches[b]) = available_quantity(batches[b])

\* The last call was a Batch.allocate and no batch holds any line, although
\* every batch has stock: that call added nothing.
C5_Witness ==
    /\ last = "Batch.allocate"
    /\ \A b \in BatchIds :
          batches[b].allocations = {} /\ batches[b].purchased_quantity > 0

\* C6: Batch.allocate(line) called twice in a row leaves the allocations and
\* available_quantity after the second call equal to those after the first.
C6_AllocateIdempotent ==
    \A b \in BatchIds, line \in OrderLine :
        LET a1 == call_allocate(batches, b, line).batches
            a2 == call_allocate(a1, b, line).batches
        IN  /\ a2[b].allocations = a1[b].allocations
            /\ available_quantity(a2[b]) = available_quantity(a1[b])

\* After a Batch.allocate, a batch holds a line that it could take again: the
\* repeated call passes can_allocate and the set absorbs it.
C6_Witness ==
    /\ last = "Batch.allocate"
    /\ \E b \in BatchIds : \E line \in batches[b].allocations :
          line.qty <= available_quantity(batches[b])

\* C7 as stated: Batch.allocate(line) with a line of the batch's sku whose
\* quantity equals available_quantity succeeds and leaves available_quantity 0.
C7_ExactFitEveryLine ==
    \A b \in BatchIds, line \in OrderLine :
        LET new == call_allocate(batches, b, line).batches[b] IN
        (line.sku = batches[b].sku /\ line.qty = available_quantity(batches[b]))
        => line \in new.allocations /\ available_quantity(new) = 0

\* C7 amended: Batch.allocate(line) with a line of the batch's sku that is not
\* already in the allocations and whose quantity equals available_quantity
\* succeeds and leaves available_quantity 0.
C7_ExactFitNewLine ==
    \A b \in BatchIds, line \in OrderLine :
        LET new == call_allocate(batches, b, line).batches[b] IN
        (/\ line.sku = batches[b].sku
         /\ line.qty = available_quantity(batches[b])
         /\ line \notin batches[b].allocations)
        => line \in new.allocations /\ available_quantity(new) = 0

\* After a Batch.allocate, a batch is at 0 and holds a line that was added
\* when available_quantity was exactly that line's quantity.
C7_Witness ==
    /\ last = "Batch.allocate"
    /\ \E b \in BatchIds : \E p \in prior[b] :
          /\ p.available = p.line.qty
          /\ p.allocations # {}
          /\ available_quantity(batches[b]) = 0

\* C8: in every state reachable by Batch.allocate, Batch.deallocate and
\* module-level allocate, every line in a batch's allocations has the batch's sku.
C8_AllocatedSkuMatches ==
    \A b \in BatchIds : \A line \in batches[b].allocations :
        line.sku = batches[b].sku

\* Two batches of different skus each hold a line.
C8_Witness ==
    \E b \in BatchIds, c \in BatchIds :
        /\ batches[b].sku # batches[c].sku
        /\ batches[b].allocations # {}
        /\ batches[c].allocations # {}

\* C9: if can_allocate(line) holds and line is not in the allocations, then
\* after Batch.allocate(line) the line is a member, every line allocated
\* before is still a member and available_quantity is lower by line.qty.
C9_AllocateEffect ==
    \A b \in BatchIds, line \in OrderLine :
        LET new == call_allocate(batches, b, line).batches[b] IN
        (can_allocate(batches[b], line) /\ line \notin batches[b].allocations)
        => /\ line \in new.allocations
           /\ batches[b].allocations \subseteq new.allocations
           /\ available_quantity(new) = available_quantity(batches[b]) - line.qty

\* After a Batch.allocate, a batch holds a line of quantity MaxQty that was
\* added to an empty batch, and available_quantity is lower by that quantity.
C9_Witness ==
    /\ last = "Batch.allocate"
    /\ \E b \in BatchIds : \E p \in prior[b] :
          /\ p.line.qty = MaxQty
          /\ p.allocations = {}
          /\ batches[b].allocations = {p.line}
          /\ available_quantity(batches[b]) = p.available - MaxQty

\* C10 as stated: Batch.deallocate(line) with a line that is not allocated
\* raises nothing and changes nothing; with an allocated line it removes
\* exactly that line and available_quantity returns to the value it had
\* before that line was allocated.
C10_DeallocateRestoresPrior ==
    \A b \in BatchIds, line \in OrderLine :
        LET r == call_deallocate(batches, b, line) IN
        /\ r.ret = Returned(None)
        /\ line \notin batches[b].allocations
              => /\ r.batches[b].allocations = batches[b].allocations
                 /\ available_quantity(r.batches[b]) = available_quantity(batches[b])
        /\ line \in batches[b].allocations
              => /\ r.batches[b].allocations = batches[b].allocations \ {line}
                 /\ \A p \in prior[b] :
                       p.line = line => available_quantity(r.batches[b]) = p.available

\* C10 amended: Batch.deallocate(line) with a line that is not allocated
\* raises nothing and changes nothing; with an allocated line it removes
\* exactly that line and available_quantity rises by that line's quantity,
\* which is the value it had before that line was allocated whenever the
\* batch's other allocations are the ones it had then.
C10_DeallocateEffect ==
    \A b \in BatchIds, line \in OrderLine :
        LET r == call_deallocate(batches, b, line) IN
        /\ r.ret = Returned(None)
        /\ line \notin batches[b].allocations
              => /\ r.batches[b].allocations = batches[b].allocations
                 /\ available_quantity(r.batches[b]) = available_quantity(batches[b])
        /\ line \in batches[b].allocations
              => /\ r.batches[b].allocations = batches[b].allocations \ {line}
                 /\ available_quantity(r.batches[b])
                       = available_quantity(batches[b]) + line.qty
                 /\ \A p \in prior[b] :
                       (p.line = line /\ p.allocations = batches[b].allocations \ {line})
                       => available_quantity(r.batches[b]) = p.available

\* After a Batch.deallocate, a batch holds one line, which was added while
\* another line was there: that other line has been removed since.
C10_Witness ==
    /\ last = "Batch.deallocate"
    /\ \E b \in BatchIds : \E p \in prior[b] :
          /\ batches[b].allocations = {p.line}
          /\ p.allocations # {}
          /\ available_quantity(batches[b]) = p.available - p.line.qty + SumQty(p.allocations)

\* The positions of a list whose batch can take the line.
Eligible(line, list) ==
    {i \in 1..Len(list) :
        /\ batches[list[i]].sku = line.sku
        /\ line.qty <= available_quantity(batches[list[i]])}

\* Among them, the positions whose eta no eligible batch's eta is earlier than.
EarliestEligible(line, list) ==
    {i \in Eligible(line, list) :
        \A j \in Eligible(line, list) :
            ~EarlierEta(batches[list[j]].eta, batches[list[i]].eta)}

\* C11: among the batches of the list that can take the line and have the
\* earliest eta (equal etas, None included, tie), module-level allocate selects
\* the one that comes first in the caller's input order.
C11_TieBreakInputOrder ==
    \A line \in OrderLine, list \in BatchLists :
        LET r == allocate(batches, line, list) IN
        Eligible(line, list) # {} =>
            LET first == CHOOSE i \in EarliestEligible(line, list) :
                             \A j \in EarliestEligible(line, list) : i <= j
            IN  /\ r.ret.kind = "return"
                /\ r.ret.value = batches[list[first]].reference
                /\ line \in r.batches[list[first]].allocations

\* allocate returned the reference of a batch that now holds one line, while
\* another batch of the same sku and the same eta is empty and large enough
\* for that line: the two tied when the call was made.
C11_Witness ==
    /\ last = "allocate"
    /\ ret.kind = "return"
    /\ \E b \in BatchIds, c \in BatchIds : \E p \in prior[b] :
          /\ b # c
          /\ ret.value = batches[b].reference
          /\ batches[b].allocations = {p.line}
          /\ batches[c].sku = batches[b].sku
          /\ batches[c].eta = batches[b].eta
          /\ batches[c].allocations = {}
          /\ p.line.qty <= batches[c].purchased_quantity

\* C12: when module-level allocate returns a reference, the selected batch's
\* allocations are its previous allocations plus the line; the allocations of
\* every other batch, every batch's reference, sku, eta and purchased
\* quantity, and the caller's list are unchanged.
C12_AllocateFrame ==
    \A line \in OrderLine, list \in BatchLists :
        LET r == allocate(batches, line, list) IN
        r.ret.kind = "return" =>
            /\ r.list = list
            /\ \E b \in Elems(list) :
                  /\ r.ret.value = batches[b].reference
                  /\ r.batches[b].allocations = batches[b].allocations \cup {line}
                  /\ \A c \in BatchIds \ {b} :
                        r.batches[c].allocations = batches[c].allocations
            /\ \A c \in BatchIds :
                  /\ r.batches[c].reference = batches[c].reference
                  /\ r.batches[c].sku = batches[c].sku
                  /\ r.batches[c].eta = batches[c].eta
                  /\ r.batches[c].purchased_quantity = batches[c].purchased_quantity

\* allocate returned the reference of a batch that holds the line it found
\* there plus one more, while the other batch, of the same sku and with room
\* left, holds nothing.
C12_Witness ==
    /\ last = "allocate"
    /\ ret.kind = "return"
    /\ \E b \in BatchIds, c \in BatchIds : \E p \in prior[b] :
          /\ b # c
          /\ ret.value = batches[b].reference
          /\ p.allocations # {}
          /\ batches[b].allocations = p.allocations \cup {p.line}
          /\ batches[c].sku = batches[b].sku
          /\ batches[c].purchased_quantity > 0
          /\ batches[c].allocations = {}

\* The quantities of a set of lines added up quantity by quantity.
TotalQty(lines) ==
    LET n(q) == Cardinality({l \in lines : l.qty = q})
        RECURSIVE upto(_)
        upto(q) == IF q = 0 THEN 0 ELSE q * n(q) + upto(q - 1)
    IN  upto(MaxQty)

\* C13: in every reachable state allocated_quantity is the sum of the
\* quantities of the lines in allocations and allocated_quantity +
\* available_quantity is the purchased quantity, and no call of
\* Batch.allocate, Batch.deallocate or module-level allocate changes the
\* purchased quantity.
C13_Conservation ==
    /\ \A b \in BatchIds :
          /\ allocated_quantity(batches[b]) = TotalQty(batches[b].allocations)
          /\ allocated_quantity(batches[b]) + available_quantity(batches[b])
                = batches[b].purchased_quantity
    /\ \A c \in BatchIds, line \in OrderLine :
          /\ \A b \in BatchIds :
                /\ call_allocate(batches, b, line).batches[c].purchased_quantity
                      = batches[c].purchased_quantity
                /\ call_deallocate(batches, b, line).batches[c].purchased_quantity
                      = batches[c].purchased_quantity
          /\ \A list \in BatchLists :
                allocate(batches, line, list).batches[c].purchased_quantity
                   = batches[c].purchased_quantity

\* A batch holds two lines that use up part or all of what was purchased.
C13_Witness ==
    /\ last # "__init__"
    /\ \E b \in BatchIds :
          /\ Cardinality(batches[b].allocations) = 2
          /\ allocated_quantity(batches[b]) = 2
          /\ allocated_quantity(batches[b]) + available_quantity(batches[b])
                = batches[b].purchased_quantity

\* C14: starting from batches with empty allocations and using module-level
\* allocate alone, an order line is in the allocations of at most one batch.
C14_LineInOneBatch ==
    \A line \in OrderLine :
        Cardinality({b \in BatchIds : line \in batches[b].allocations}) <= 1
====
